---- MODULE Spec2Model ----
(***************************************************************************)
(* Model of openhands/resolver/review_pr.py: PRReviewer.review() and the   *)
(* helpers it calls.                                                       *)
(*                                                                         *)
(* A Python str is kept run-length encoded: a sequence of runs <<c, e>>,    *)
(* c the character of the run and e the index of its last character, with  *)
(* neighbouring runs of different characters, so that equal strings are    *)
(* equal values: "aab" is << <<"a", 2>>, <<"b", 3>> >>.  Characters that    *)
(* cannot be written in a TLA+ string literal are written by code point:   *)
(* "U+0060" is the backtick, "U+1F916" the robot face, "U+1F4CB" the       *)
(* clipboard, "U+1F50D" the magnifying glass and "U+2190" the left arrow;  *)
(* each is one character, as len() counts it in Python.                    *)
(* An Optional[str] is a record [none, val].                               *)
(***************************************************************************)
EXTENDS Integers, Sequences, FiniteSets, TLC

VARIABLES pc, error, issue, response, pr_diff, prompt, llm_requests,
          llm_response, review_content, review_summary, sent

vars == <<pc, error, issue, response, pr_diff, prompt, llm_requests,
          llm_response, review_content, review_summary, sent>>

-----------------------------------------------------------------------------
(* Python values and str methods *)

None == [none |-> TRUE, val |-> <<>>]

Str(s) == [none |-> FALSE, val |-> s]

\* bool(x) of an Optional[str]: None and '' are falsy
Truthy(o) == ~o.none /\ o.val # <<>>

\* len(s)
Size(s) == IF s = <<>> THEN 0 ELSE s[Len(s)][2]

\* index of the first character of run k
RunStart(s, k) == IF k = 1 THEN 1 ELSE s[k - 1][2] + 1

\* the run that holds character i
RunAt(s, i) == CHOOSE k \in 1..Len(s) : RunStart(s, k) <= i /\ i <= s[k][2]

\* s[a - 1 : b], the characters a .. b
Slice(s, a, b) ==
    IF a > b THEN <<>>
    ELSE LET f == RunAt(s, a)
             l == RunAt(s, b)
         IN [k \in 1..(l - f + 1) |->
                << s[f + k - 1][1],
                   (IF s[f + k - 1][2] < b THEN s[f + k - 1][2] ELSE b) - (a - 1) >>]

\* s[:n]
Take(s, n) == Slice(s, 1, IF n < Size(s) THEN n ELSE Size(s))

\* s + t; when s ends with the character t starts with, the two runs become one
Cat(s, t) ==
    IF s = <<>> THEN t
    ELSE IF t = <<>> THEN s
    ELSE LET shifted == [k \in 1..Len(t) |-> << t[k][1], t[k][2] + Size(s) >>]
         IN IF s[Len(s)][1] = t[1][1]
            THEN SubSeq(s, 1, Len(s) - 1) \o shifted
            ELSE s \o shifted

RECURSIVE Concat(_)
\* the str values of a list, one after the other
Concat(list) == IF list = <<>> THEN <<>> ELSE Cat(Head(list), Concat(Tail(list)))

\* c * n
Fill(c, n) == IF n = 0 THEN <<>> ELSE << <<c, n>> >>

\* s.startswith(p)
StartsWith(s, p) == Size(p) <= Size(s) /\ Slice(s, 1, Size(p)) = p

Whitespace == {" ", "\t", "\n", "\r", "\f"}

\* s.strip()
Strip(s) ==
    LET keep == {k \in 1..Len(s) : s[k][1] \notin Whitespace}
        first == CHOOSE k \in keep : \A j \in keep : k <= j
        last == CHOOSE k \in keep : \A j \in keep : j <= k
    IN IF keep = {} THEN <<>> ELSE Slice(s, RunStart(s, first), s[last][2])

\* s.split(sep) for a one-character separator: the pieces between the cuts
Split(s, sep) ==
    LET cuts == UNION { RunStart(s, k)..s[k][2] : k \in {j \in 1..Len(s) : s[j][1] = sep} }
        n == Cardinality(cuts)
        cut(k) == IF k = 0 THEN 0
                  ELSE IF k = n + 1 THEN Size(s) + 1
                  ELSE CHOOSE i \in cuts : Cardinality({j \in cuts : j < i}) = k - 1
    IN [k \in 1..(n + 1) |-> Slice(s, cut(k - 1) + 1, cut(k) - 1)]

Digits == <<"0", "1", "2", "3", "4", "5", "6", "7", "8", "9">>

RECURSIVE IntToStr(_)
\* str(n) of a non-negative int, as an f-string renders it
IntToStr(n) ==
    IF n < 10 THEN Fill(Digits[n + 1], 1)
    ELSE Cat(IntToStr(n \div 10), Fill(Digits[(n % 10) + 1], 1))

RECURSIVE Join(_)
\* ''.join(parts) of parts that are all str
Join(parts) ==
    IF parts = <<>> THEN <<>> ELSE Cat(Head(parts).val, Join(Tail(parts)))

\* ''.join(parts) raises TypeError when an item is not a str
JoinRaises(parts) == \E i \in 1..Len(parts) : parts[i].none

-----------------------------------------------------------------------------
(* _build_review_prompt *)

max_diff_length == 10000

\* '\n\n[... diff truncated for length ...]'
TruncationMarker == (* '\n\n[... diff truncated for length ...]' *)
                    << <<"\n",2>>, <<"[",3>>, <<".",6>>, <<" ",7>>, <<"d",8>>, <<"i",9>>,
                       <<"f",11>>, <<" ",12>>, <<"t",13>>, <<"r",14>>, <<"u",15>>, <<"n",16>>,
                       <<"c",17>>, <<"a",18>>, <<"t",19>>, <<"e",20>>, <<"d",21>>, <<" ",22>>,
                       <<"f",23>>, <<"o",24>>, <<"r",25>>, <<" ",26>>, <<"l",27>>, <<"e",28>>,
                       <<"n",29>>, <<"g",30>>, <<"t",31>>, <<"h",32>>, <<" ",33>>, <<".",36>>,
                       <<"]",37>> >>

NoDescription == (* 'No description provided' *)
                 << <<"N",1>>, <<"o",2>>, <<" ",3>>, <<"d",4>>, <<"e",5>>, <<"s",6>>, <<"c",7>>,
                    <<"r",8>>, <<"i",9>>, <<"p",10>>, <<"t",11>>, <<"i",12>>, <<"o",13>>,
                    <<"n",14>>, <<" ",15>>, <<"p",16>>, <<"r",17>>, <<"o",18>>, <<"v",19>>,
                    <<"i",20>>, <<"d",21>>, <<"e",22>>, <<"d",23>> >>

PromptTail == (* '\n```\n\nPlease provide a thorough code review covering:\n1. **Code Quality**: Are there any code smells, anti-patterns, or best practice violations?\n2. **Bugs & Issues**: Are there any potential bugs, edge cases, or logical errors?\n3. **Security**: Are there any security vulnerabilities or concerns?\n4. **Performance**: Are there any performance issues or optimization opportunities?\n5. **Maintainability**: Is the code readable, well-structured, and maintainable?\n6. **Testing**: Are there adequate tests? What test cases might be missing?\n\nFormat your response as a structured review with clear sections and actionable feedback.\n' *)
              << <<"\n",1>>, <<"U+0060",4>>, <<"\n",6>>, <<"P",7>>, <<"l",8>>, <<"e",9>>,
                 <<"a",10>>, <<"s",11>>, <<"e",12>>, <<" ",13>>, <<"p",14>>, <<"r",15>>,
                 <<"o",16>>, <<"v",17>>, <<"i",18>>, <<"d",19>>, <<"e",20>>, <<" ",21>>,
                 <<"a",22>>, <<" ",23>>, <<"t",24>>, <<"h",25>>, <<"o",26>>, <<"r",27>>,
                 <<"o",28>>, <<"u",29>>, <<"g",30>>, <<"h",31>>, <<" ",32>>, <<"c",33>>,
                 <<"o",34>>, <<"d",35>>, <<"e",36>>, <<" ",37>>, <<"r",38>>, <<"e",39>>,
                 <<"v",40>>, <<"i",41>>, <<"e",42>>, <<"w",43>>, <<" ",44>>, <<"c",45>>,
                 <<"o",46>>, <<"v",47>>, <<"e",48>>, <<"r",49>>, <<"i",50>>, <<"n",51>>,
                 <<"g",52>>, <<":",53>>, <<"\n",54>>, <<"1",55>>, <<".",56>>, <<" ",57>>,
                 <<"*",59>>, <<"C",60>>, <<"o",61>>, <<"d",62>>, <<"e",63>>, <<" ",64>>,
                 <<"Q",65>>, <<"u",66>>, <<"a",67>>, <<"l",68>>, <<"i",69>>, <<"t",70>>,
                 <<"y",71>>, <<"*",73>>, <<":",74>>, <<" ",75>>, <<"A",76>>, <<"r",77>>,
                 <<"e",78>>, <<" ",79>>, <<"t",80>>, <<"h",81>>, <<"e",82>>, <<"r",83>>,
                 <<"e",84>>, <<" ",85>>, <<"a",86>>, <<"n",87>>, <<"y",88>>, <<" ",89>>,
                 <<"c",90>>, <<"o",91>>, <<"d",92>>, <<"e",93>>, <<" ",94>>, <<"s",95>>,
                 <<"m",96>>, <<"e",97>>, <<"l",99>>, <<"s",100>>, <<",",101>>, <<" ",102>>,
                 <<"a",103>>, <<"n",104>>, <<"t",105>>, <<"i",106>>, <<"-",107>>, <<"p",108>>,
                 <<"a",109>>, <<"t",111>>, <<"e",112>>, <<"r",113>>, <<"n",114>>, <<"s",115>>,
                 <<",",116>>, <<" ",117>>, <<"o",118>>, <<"r",119>>, <<" ",120>>, <<"b",121>>,
                 <<"e",122>>, <<"s",123>>, <<"t",124>>, <<" ",125>>, <<"p",126>>, <<"r",127>>,
                 <<"a",128>>, <<"c",129>>, <<"t",130>>, <<"i",131>>, <<"c",132>>, <<"e",133>>,
                 <<" ",134>>, <<"v",135>>, <<"i",136>>, <<"o",137>>, <<"l",138>>, <<"a",139>>,
                 <<"t",140>>, <<"i",141>>, <<"o",142>>, <<"n",143>>, <<"s",144>>, <<"?",145>>,
                 <<"\n",146>>, <<"2",147>>, <<".",148>>, <<" ",149>>, <<"*",151>>, <<"B",152>>,
                 <<"u",153>>, <<"g",154>>, <<"s",155>>, <<" ",156>>, <<"&",157>>, <<" ",158>>,
                 <<"I",159>>, <<"s",161>>, <<"u",162>>, <<"e",163>>, <<"s",164>>, <<"*",166>>,
                 <<":",167>>, <<" ",168>>, <<"A",169>>, <<"r",170>>, <<"e",171>>, <<" ",172>>,
                 <<"t",173>>, <<"h",174>>, <<"e",175>>, <<"r",176>>, <<"e",177>>, <<" ",178>>,
                 <<"a",179>>, <<"n",180>>, <<"y",181>>, <<" ",182>>, <<"p",183>>, <<"o",184>>,
                 <<"t",185>>, <<"e",186>>, <<"n",187>>, <<"t",188>>, <<"i",189>>, <<"a",190>>,
                 <<"l",191>>, <<" ",192>>, <<"b",193>>, <<"u",194>>, <<"g",195>>, <<"s",196>>,
                 <<",",197>>, <<" ",198>>, <<"e",199>>, <<"d",200>>, <<"g",201>>, <<"e",202>>,
                 <<" ",203>>, <<"c",204>>, <<"a",205>>, <<"s",206>>, <<"e",207>>, <<"s",208>>,
                 <<",",209>>, <<" ",210>>, <<"o",211>>, <<"r",212>>, <<" ",213>>, <<"l",214>>,
                 <<"o",215>>, <<"g",216>>, <<"i",217>>, <<"c",218>>, <<"a",219>>, <<"l",220>>,
                 <<" ",221>>, <<"e",222>>, <<"r",224>>, <<"o",225>>, <<"r",226>>, <<"s",227>>,
                 <<"?",228>>, <<"\n",229>>, <<"3",230>>, <<".",231>>, <<" ",232>>, <<"*",234>>,
                 <<"S",235>>, <<"e",236>>, <<"c",237>>, <<"u",238>>, <<"r",239>>, <<"i",240>>,
                 <<"t",241>>, <<"y",242>>, <<"*",244>>, <<":",245>>, <<" ",246>>, <<"A",247>>,
                 <<"r",248>>, <<"e",249>>, <<" ",250>>, <<"t",251>>, <<"h",252>>, <<"e",253>>,
                 <<"r",254>>, <<"e",255>>, <<" ",256>>, <<"a",257>>, <<"n",258>>, <<"y",259>>,
                 <<" ",260>>, <<"s",261>>, <<"e",262>>, <<"c",263>>, <<"u",264>>, <<"r",265>>,
                 <<"i",266>>, <<"t",267>>, <<"y",268>>, <<" ",269>>, <<"v",270>>, <<"u",271>>,
                 <<"l",272>>, <<"n",273>>, <<"e",274>>, <<"r",275>>, <<"a",276>>, <<"b",277>>,
                 <<"i",278>>, <<"l",279>>, <<"i",280>>, <<"t",281>>, <<"i",282>>, <<"e",283>>,
                 <<"s",284>>, <<" ",285>>, <<"o",286>>, <<"r",287>>, <<" ",288>>, <<"c",289>>,
                 <<"o",290>>, <<"n",291>>, <<"c",292>>, <<"e",293>>, <<"r",294>>, <<"n",295>>,
                 <<"s",296>>, <<"?",297>>, <<"\n",298>>, <<"4",299>>, <<".",300>>, <<" ",301>>,
                 <<"*",303>>, <<"P",304>>, <<"e",305>>, <<"r",306>>, <<"f",307>>, <<"o",308>>,
                 <<"r",309>>, <<"m",310>>, <<"a",311>>, <<"n",312>>, <<"c",313>>, <<"e",314>>,
                 <<"*",316>>, <<":",317>>, <<" ",318>>, <<"A",319>>, <<"r",320>>, <<"e",321>>,
                 <<" ",322>>, <<"t",323>>, <<"h",324>>, <<"e",325>>, <<"r",326>>, <<"e",327>>,
                 <<" ",328>>, <<"a",329>>, <<"n",330>>, <<"y",331>>, <<" ",332>>, <<"p",333>>,
                 <<"e",334>>, <<"r",335>>, <<"f",336>>, <<"o",337>>, <<"r",338>>, <<"m",339>>,
                 <<"a",340>>, <<"n",341>>, <<"c",342>>, <<"e",343>>, <<" ",344>>, <<"i",345>>,
                 <<"s",347>>, <<"u",348>>, <<"e",349>>, <<"s",350>>, <<" ",351>>, <<"o",352>>,
                 <<"r",353>>, <<" ",354>>, <<"o",355>>, <<"p",356>>, <<"t",357>>, <<"i",358>>,
                 <<"m",359>>, <<"i",360>>, <<"z",361>>, <<"a",362>>, <<"t",363>>, <<"i",364>>,
                 <<"o",365>>, <<"n",366>>, <<" ",367>>, <<"o",368>>, <<"p",370>>, <<"o",371>>,
                 <<"r",372>>, <<"t",373>>, <<"u",374>>, <<"n",375>>, <<"i",376>>, <<"t",377>>,
                 <<"i",378>>, <<"e",379>>, <<"s",380>>, <<"?",381>>, <<"\n",382>>, <<"5",383>>,
                 <<".",384>>, <<" ",385>>, <<"*",387>>, <<"M",388>>, <<"a",389>>, <<"i",390>>,
                 <<"n",391>>, <<"t",392>>, <<"a",393>>, <<"i",394>>, <<"n",395>>, <<"a",396>>,
                 <<"b",397>>, <<"i",398>>, <<"l",399>>, <<"i",400>>, <<"t",401>>, <<"y",402>>,
                 <<"*",404>>, <<":",405>>, <<" ",406>>, <<"I",407>>, <<"s",408>>, <<" ",409>>,
                 <<"t",410>>, <<"h",411>>, <<"e",412>>, <<" ",413>>, <<"c",414>>, <<"o",415>>,
                 <<"d",416>>, <<"e",417>>, <<" ",418>>, <<"r",419>>, <<"e",420>>, <<"a",421>>,
                 <<"d",422>>, <<"a",423>>, <<"b",424>>, <<"l",425>>, <<"e",426>>, <<",",427>>,
                 <<" ",428>>, <<"w",429>>, <<"e",430>>, <<"l",432>>, <<"-",433>>, <<"s",434>>,
                 <<"t",435>>, <<"r",436>>, <<"u",437>>, <<"c",438>>, <<"t",439>>, <<"u",440>>,
                 <<"r",441>>, <<"e",442>>, <<"d",443>>, <<",",444>>, <<" ",445>>, <<"a",446>>,
                 <<"n",447>>, <<"d",448>>, <<" ",449>>, <<"m",450>>, <<"a",451>>, <<"i",452>>,
                 <<"n",453>>, <<"t",454>>, <<"a",455>>, <<"i",456>>, <<"n",457>>, <<"a",458>>,
                 <<"b",459>>, <<"l",460>>, <<"e",461>>, <<"?",462>>, <<"\n",463>>, <<"6",464>>,
                 <<".",465>>, <<" ",466>>, <<"*",468>>, <<"T",469>>, <<"e",470>>, <<"s",471>>,
                 <<"t",472>>, <<"i",473>>, <<"n",474>>, <<"g",475>>, <<"*",477>>, <<":",478>>,
                 <<" ",479>>, <<"A",480>>, <<"r",481>>, <<"e",482>>, <<" ",483>>, <<"t",484>>,
                 <<"h",485>>, <<"e",486>>, <<"r",487>>, <<"e",488>>, <<" ",489>>, <<"a",490>>,
                 <<"d",491>>, <<"e",492>>, <<"q",493>>, <<"u",494>>, <<"a",495>>, <<"t",496>>,
                 <<"e",497>>, <<" ",498>>, <<"t",499>>, <<"e",500>>, <<"s",501>>, <<"t",502>>,
                 <<"s",503>>, <<"?",504>>, <<" ",505>>, <<"W",506>>, <<"h",507>>, <<"a",508>>,
                 <<"t",509>>, <<" ",510>>, <<"t",511>>, <<"e",512>>, <<"s",513>>, <<"t",514>>,
                 <<" ",515>>, <<"c",516>>, <<"a",517>>, <<"s",518>>, <<"e",519>>, <<"s",520>>,
                 <<" ",521>>, <<"m",522>>, <<"i",523>>, <<"g",524>>, <<"h",525>>, <<"t",526>>,
                 <<" ",527>>, <<"b",528>>, <<"e",529>>, <<" ",530>>, <<"m",531>>, <<"i",532>>,
                 <<"s",534>>, <<"i",535>>, <<"n",536>>, <<"g",537>>, <<"?",538>>, <<"\n",540>>,
                 <<"F",541>>, <<"o",542>>, <<"r",543>>, <<"m",544>>, <<"a",545>>, <<"t",546>>,
                 <<" ",547>>, <<"y",548>>, <<"o",549>>, <<"u",550>>, <<"r",551>>, <<" ",552>>,
                 <<"r",553>>, <<"e",554>>, <<"s",555>>, <<"p",556>>, <<"o",557>>, <<"n",558>>,
                 <<"s",559>>, <<"e",560>>, <<" ",561>>, <<"a",562>>, <<"s",563>>, <<" ",564>>,
                 <<"a",565>>, <<" ",566>>, <<"s",567>>, <<"t",568>>, <<"r",569>>, <<"u",570>>,
                 <<"c",571>>, <<"t",572>>, <<"u",573>>, <<"r",574>>, <<"e",575>>, <<"d",576>>,
                 <<" ",577>>, <<"r",578>>, <<"e",579>>, <<"v",580>>, <<"i",581>>, <<"e",582>>,
                 <<"w",583>>, <<" ",584>>, <<"w",585>>, <<"i",586>>, <<"t",587>>, <<"h",588>>,
                 <<" ",589>>, <<"c",590>>, <<"l",591>>, <<"e",592>>, <<"a",593>>, <<"r",594>>,
                 <<" ",595>>, <<"s",596>>, <<"e",597>>, <<"c",598>>, <<"t",599>>, <<"i",600>>,
                 <<"o",601>>, <<"n",602>>, <<"s",603>>, <<" ",604>>, <<"a",605>>, <<"n",606>>,
                 <<"d",607>>, <<" ",608>>, <<"a",609>>, <<"c",610>>, <<"t",611>>, <<"i",612>>,
                 <<"o",613>>, <<"n",614>>, <<"a",615>>, <<"b",616>>, <<"l",617>>, <<"e",618>>,
                 <<" ",619>>, <<"f",620>>, <<"e",622>>, <<"d",623>>, <<"b",624>>, <<"a",625>>,
                 <<"c",626>>, <<"k",627>>, <<".",628>>, <<"\n",629>> >>

\* the prompt up to the opening of the diff fence
PromptHead(iss) ==
    Concat(<< (* 'Please review the following pull request:\n\n**Title:** ' *)
              << <<"P",1>>, <<"l",2>>, <<"e",3>>, <<"a",4>>, <<"s",5>>, <<"e",6>>, <<" ",7>>,
                 <<"r",8>>, <<"e",9>>, <<"v",10>>, <<"i",11>>, <<"e",12>>, <<"w",13>>, <<" ",14>>,
                 <<"t",15>>, <<"h",16>>, <<"e",17>>, <<" ",18>>, <<"f",19>>, <<"o",20>>,
                 <<"l",22>>, <<"o",23>>, <<"w",24>>, <<"i",25>>, <<"n",26>>, <<"g",27>>,
                 <<" ",28>>, <<"p",29>>, <<"u",30>>, <<"l",32>>, <<" ",33>>, <<"r",34>>,
                 <<"e",35>>, <<"q",36>>, <<"u",37>>, <<"e",38>>, <<"s",39>>, <<"t",40>>,
                 <<":",41>>, <<"\n",43>>, <<"*",45>>, <<"T",46>>, <<"i",47>>, <<"t",48>>,
                 <<"l",49>>, <<"e",50>>, <<":",51>>, <<"*",53>>, <<" ",54>> >>, iss.title,
              (* '\n**PR Number:** #' *)
              << <<"\n",1>>, <<"*",3>>, <<"P",4>>, <<"R",5>>, <<" ",6>>, <<"N",7>>, <<"u",8>>,
                 <<"m",9>>, <<"b",10>>, <<"e",11>>, <<"r",12>>, <<":",13>>, <<"*",15>>, <<" ",16>>,
                 <<"#",17>> >>, IntToStr(iss.number),
              (* '\n**Repository:** ' *)
              << <<"\n",1>>, <<"*",3>>, <<"R",4>>, <<"e",5>>, <<"p",6>>, <<"o",7>>, <<"s",8>>,
                 <<"i",9>>, <<"t",10>>, <<"o",11>>, <<"r",12>>, <<"y",13>>, <<":",14>>, <<"*",16>>,
                 <<" ",17>> >>, iss.owner, << <<"/",1>> >>, iss.repo,
              (* '\n\n**Description:**\n' *)
              << <<"\n",2>>, <<"*",4>>, <<"D",5>>, <<"e",6>>, <<"s",7>>, <<"c",8>>, <<"r",9>>,
                 <<"i",10>>, <<"p",11>>, <<"t",12>>, <<"i",13>>, <<"o",14>>, <<"n",15>>,
                 <<":",16>>, <<"*",18>>, <<"\n",19>> >>,
              IF Truthy(iss.body) THEN iss.body.val ELSE NoDescription,
              (* '\n\n**Code Changes:**\n```diff\n' *)
              << <<"\n",2>>, <<"*",4>>, <<"C",5>>, <<"o",6>>, <<"d",7>>, <<"e",8>>, <<" ",9>>,
                 <<"C",10>>, <<"h",11>>, <<"a",12>>, <<"n",13>>, <<"g",14>>, <<"e",15>>,
                 <<"s",16>>, <<":",17>>, <<"*",19>>, <<"\n",20>>, <<"U+0060",23>>, <<"d",24>>,
                 <<"i",25>>, <<"f",27>>, <<"\n",28>> >> >>)

\* truncated_diff with the slice one character short
truncated_diff_short_slice(diff) ==
    IF Size(diff) > max_diff_length
    THEN Cat(Take(diff, max_diff_length - 1), TruncationMarker)
    ELSE Take(diff, max_diff_length)

truncated_diff(diff) ==
    IF Size(diff) > max_diff_length
    THEN Cat(Take(diff, max_diff_length), TruncationMarker)
    ELSE Take(diff, max_diff_length)

build_review_prompt(iss, diff) ==
    Concat(<< PromptHead(iss), truncated_diff(diff), PromptTail >>)

-----------------------------------------------------------------------------
(* _format_review_output *)

DescriptionLimit == 500

\* number of lines of the split diff that start with mark but not with
\* three marks in a row
CountMarked(diff_lines, mark) ==
    Cardinality({k \in 1..Len(diff_lines) :
        /\ StartsWith(diff_lines[k], Fill(mark, 1))
        /\ ~StartsWith(diff_lines[k], Fill(mark, 3))})

\* additions counted over the part of the diff that the prompt keeps
additions_of_prompt_part(diff) ==
    CountMarked(Split(Take(diff, max_diff_length), "\n"), "+")

additions(diff) == CountMarked(Split(diff, "\n"), "+")

deletions(diff) == CountMarked(Split(diff, "\n"), "-")

files_changed(diff) ==
    LET diff_lines == Split(diff, "\n")
    IN Cardinality({k \in 1..Len(diff_lines) : StartsWith(diff_lines[k], (* 'diff --git' *)
                                                                         << <<"d",1>>, <<"i",2>>, <<"f",4>>,
                                                                            <<" ",5>>, <<"-",7>>, <<"g",8>>,
                                                                            <<"i",9>>, <<"t",10>> >>)})

DescriptionParts(iss) ==
    IF Truthy(iss.body) /\ Strip(iss.body.val) # <<>>
    THEN LET body_text == Strip(iss.body.val)
         IN << Str((* '### \U0001f4cb PR Description\n' *)
                   << <<"#",3>>, <<" ",4>>, <<"U+1F4CB",5>>, <<" ",6>>, <<"P",7>>, <<"R",8>>,
                      <<" ",9>>, <<"D",10>>, <<"e",11>>, <<"s",12>>, <<"c",13>>, <<"r",14>>,
                      <<"i",15>>, <<"p",16>>, <<"t",17>>, <<"i",18>>, <<"o",19>>, <<"n",20>>,
                      <<"\n",21>> >>),
               IF Size(body_text) > DescriptionLimit
               THEN Str(Cat(Take(body_text, DescriptionLimit), (* '...\n\n' *)
                                                               << <<".",3>>, <<"\n",5>> >>))
               ELSE Str(Cat(body_text, (* '\n\n' *)
                                       << <<"\n",2>> >>)) >>
    ELSE <<>>

BranchParts(iss) ==
    IF Truthy(iss.head_branch) /\ Truthy(iss.base_branch)
    THEN << Str(Concat(<< (* '**Branches:** `' *)
                          << <<"*",2>>, <<"B",3>>, <<"r",4>>, <<"a",5>>, <<"n",6>>, <<"c",7>>,
                             <<"h",8>>, <<"e",9>>, <<"s",10>>, <<":",11>>, <<"*",13>>, <<" ",14>>,
                             <<"U+0060",15>> >>, iss.base_branch.val, (* '` \u2190 `' *)
                                                                    << <<"U+0060",1>>, <<" ",2>>,
                                                                       <<"U+2190",3>>, <<" ",4>>,
                                                                       <<"U+0060",5>> >>,
                          iss.head_branch.val, (* '`\n\n' *)
                                               << <<"U+0060",1>>, <<"\n",3>> >> >>)) >>
    ELSE <<>>

ChangesParts(diff) ==
    << Str(Concat(<< (* '**Changes:** ' *)
                     << <<"*",2>>, <<"C",3>>, <<"h",4>>, <<"a",5>>, <<"n",6>>, <<"g",7>>,
                        <<"e",8>>, <<"s",9>>, <<":",10>>, <<"*",12>>, <<" ",13>> >>, IntToStr(files_changed(diff)),
                     (* ' file(s) changed, ' *)
                     << <<" ",1>>, <<"f",2>>, <<"i",3>>, <<"l",4>>, <<"e",5>>, <<"(",6>>,
                        <<"s",7>>, <<")",8>>, <<" ",9>>, <<"c",10>>, <<"h",11>>, <<"a",12>>,
                        <<"n",13>>, <<"g",14>>, <<"e",15>>, <<"d",16>>, <<",",17>>, <<" ",18>> >> >>)),
       Str(Concat(<< << <<"+",1>> >>, IntToStr(additions(diff)), (* ' additions, -' *)
                                                       << <<" ",1>>, <<"a",2>>, <<"d",4>>,
                                                          <<"i",5>>, <<"t",6>>, <<"i",7>>,
                                                          <<"o",8>>, <<"n",9>>, <<"s",10>>,
                                                          <<",",11>>, <<" ",12>>, <<"-",13>> >>,
                     IntToStr(deletions(diff)), (* ' deletions\n\n' *)
                                                << <<" ",1>>, <<"d",2>>, <<"e",3>>, <<"l",4>>,
                                                   <<"e",5>>, <<"t",6>>, <<"i",7>>, <<"o",8>>,
                                                   <<"n",9>>, <<"s",10>>, <<"\n",12>> >> >>)),
       Str((* '---\n\n' *)
           << <<"-",3>>, <<"\n",5>> >>) >>

HeaderParts(iss) ==
    << Str(Concat(<< (* '## \U0001f916 AI Code Review: ' *)
                     << <<"#",2>>, <<" ",3>>, <<"U+1F916",4>>, <<" ",5>>, <<"A",6>>, <<"I",7>>,
                        <<" ",8>>, <<"C",9>>, <<"o",10>>, <<"d",11>>, <<"e",12>>, <<" ",13>>,
                        <<"R",14>>, <<"e",15>>, <<"v",16>>, <<"i",17>>, <<"e",18>>, <<"w",19>>,
                        <<":",20>>, <<" ",21>> >>, iss.title, (* '\n\n' *)
                                                                    << <<"\n",2>> >> >>)),
       Str(Concat(<< (* '**PR #' *)
                     << <<"*",2>>, <<"P",3>>, <<"R",4>>, <<" ",5>>, <<"#",6>> >>, IntToStr(iss.number), (* '** in `' *)
                                                       << <<"*",2>>, <<" ",3>>, <<"i",4>>,
                                                          <<"n",5>>, <<" ",6>>, <<"U+0060",7>> >>, iss.owner, << <<"/",1>> >>,
                     iss.repo, (* '`\n\n' *)
                               << <<"U+0060",1>>, <<"\n",3>> >> >>)) >>

FooterParts ==
    << Str((* '\n\n' *)
           << <<"\n",2>> >>), Str((* '---\n' *)
                          << <<"-",3>>, <<"\n",4>> >>),
       Str((* '*\U0001f916 Review generated by [ForteBank AI PR Reviewer] powered by AI*\n' *)
           << <<"*",1>>, <<"U+1F916",2>>, <<" ",3>>, <<"R",4>>, <<"e",5>>, <<"v",6>>, <<"i",7>>,
              <<"e",8>>, <<"w",9>>, <<" ",10>>, <<"g",11>>, <<"e",12>>, <<"n",13>>, <<"e",14>>,
              <<"r",15>>, <<"a",16>>, <<"t",17>>, <<"e",18>>, <<"d",19>>, <<" ",20>>, <<"b",21>>,
              <<"y",22>>, <<" ",23>>, <<"[",24>>, <<"F",25>>, <<"o",26>>, <<"r",27>>, <<"t",28>>,
              <<"e",29>>, <<"B",30>>, <<"a",31>>, <<"n",32>>, <<"k",33>>, <<" ",34>>, <<"A",35>>,
              <<"I",36>>, <<" ",37>>, <<"P",38>>, <<"R",39>>, <<" ",40>>, <<"R",41>>, <<"e",42>>,
              <<"v",43>>, <<"i",44>>, <<"e",45>>, <<"w",46>>, <<"e",47>>, <<"r",48>>, <<"]",49>>,
              <<" ",50>>, <<"p",51>>, <<"o",52>>, <<"w",53>>, <<"e",54>>, <<"r",55>>, <<"e",56>>,
              <<"d",57>>, <<" ",58>>, <<"b",59>>, <<"y",60>>, <<" ",61>>, <<"A",62>>, <<"I",63>>,
              <<"*",64>>, <<"\n",65>> >>) >>

\* output_parts with the review cut to its first hundred characters
output_parts_cut_review(iss, llm_review, diff) ==
    HeaderParts(iss) \o DescriptionParts(iss) \o BranchParts(iss) \o ChangesParts(diff)
    \o << Str((* '### \U0001f50d Review Feedback\n\n' *)
              << <<"#",3>>, <<" ",4>>, <<"U+1F50D",5>>, <<" ",6>>, <<"R",7>>, <<"e",8>>, <<"v",9>>,
                 <<"i",10>>, <<"e",11>>, <<"w",12>>, <<" ",13>>, <<"F",14>>, <<"e",16>>,
                 <<"d",17>>, <<"b",18>>, <<"a",19>>, <<"c",20>>, <<"k",21>>, <<"\n",23>> >>),
          IF llm_review.none THEN llm_review ELSE Str(Take(llm_review.val, 100)) >>
    \o FooterParts

\* output_parts; llm_review is appended as it is, a str or None
output_parts(iss, llm_review, diff) ==
    HeaderParts(iss) \o DescriptionParts(iss) \o BranchParts(iss) \o ChangesParts(diff)
    \o << Str((* '### \U0001f50d Review Feedback\n\n' *)
              << <<"#",3>>, <<" ",4>>, <<"U+1F50D",5>>, <<" ",6>>, <<"R",7>>, <<"e",8>>, <<"v",9>>,
                 <<"i",10>>, <<"e",11>>, <<"w",12>>, <<" ",13>>, <<"F",14>>, <<"e",16>>,
                 <<"d",17>>, <<"b",18>>, <<"a",19>>, <<"c",20>>, <<"k",21>>, <<"\n",23>> >>), llm_review >> \o FooterParts

format_review_output(iss, llm_review, diff) == Join(output_parts(iss, llm_review, diff))

-----------------------------------------------------------------------------
(* The environment: what extract_issue, requests.get and llm.completion    *)
(* can hand to review()                                                    *)

Issue(owner, repo, number, title, body, head_branch, base_branch) ==
    [owner |-> owner, repo |-> repo, number |-> number, title |-> title,
     body |-> body, head_branch |-> head_branch, base_branch |-> base_branch]

NoIssue == Issue(<<>>, <<>>, 0, <<>>, None, None, None)

\* by how much the long description exceeds the limit of the preview
DescriptionOver == 1

Issues ==
    { Issue(<< <<"a",1>> >>, << <<"b",1>> >>, 42, (* 'Fix bug' *)
                              << <<"F",1>>, <<"i",2>>, <<"x",3>>, <<" ",4>>, <<"b",5>>, <<"u",6>>,
                                 <<"g",7>> >>, None, Str((* 'fix' *)
                                                     << <<"f",1>>, <<"i",2>>, <<"x",3>> >>), Str((* 'main' *)
                                                                   << <<"m",1>>, <<"a",2>>, <<"i",3>>,
                                                                      <<"n",4>> >>)),
      Issue(<< <<"a",1>> >>, << <<"b",1>> >>, 7, (* 'Add cap' *)
                             << <<"A",1>>, <<"d",3>>, <<" ",4>>, <<"c",5>>, <<"a",6>>, <<"p",7>> >>, Str((* ' \n' *)
                                              << <<" ",1>>, <<"\n",2>> >>), Str((* 'cap' *)
                                                            << <<"c",1>>, <<"a",2>>, <<"p",3>> >>), None),
      Issue(<< <<"o",1>> >>, << <<"r",1>> >>, 105, (* 'Tidy' *)
                               << <<"T",1>>, <<"i",2>>, <<"d",3>>, <<"y",4>> >>, Str((* ' Adds a cap. ' *)
                                             << <<" ",1>>, <<"A",2>>, <<"d",4>>, <<"s",5>>,
                                                <<" ",6>>, <<"a",7>>, <<" ",8>>, <<"c",9>>,
                                                <<"a",10>>, <<"p",11>>, <<".",12>>, <<" ",13>> >>), Str((* 'dev' *)
                                                                     << <<"d",1>>, <<"e",2>>, <<"v",3>> >>), Str((* 'main' *)
                                                                                   << <<"m",1>>, <<"a",2>>, <<"i",3>>,
                                                                                      <<"n",4>> >>)),
      Issue(<< <<"o",1>> >>, << <<"r",1>> >>, 3, <<>>,
            Str(Fill("d", DescriptionLimit + DescriptionOver)), None, Str((* 'main' *)
                                                                          << <<"m",1>>, <<"a",2>>, <<"i",3>>,
                                                                             <<"n",4>> >>)) }

\* A diff is written down as its lines, each with the role it plays in the
\* unified diff; the text that requests.get returns is the lines joined by "\n".
DiffLine(kind, content) == [kind |-> kind, content |-> content]

RenderLine(l) ==
    CASE l.kind = "git" -> Cat((* 'diff --git ' *)
                               << <<"d",1>>, <<"i",2>>, <<"f",4>>, <<" ",5>>, <<"-",7>>, <<"g",8>>,
                                  <<"i",9>>, <<"t",10>>, <<" ",11>> >>, l.content)
      [] l.kind = "old" -> Cat((* '--- ' *)
                               << <<"-",3>>, <<" ",4>> >>, l.content)
      [] l.kind = "new" -> Cat((* '+++ ' *)
                               << <<"+",3>>, <<" ",4>> >>, l.content)
      [] l.kind = "hunk" -> Cat((* '@@ ' *)
                                << <<"@",2>>, <<" ",3>> >>, l.content)
      [] l.kind = "add" -> Cat(<< <<"+",1>> >>, l.content)
      [] l.kind = "del" -> Cat(<< <<"-",1>> >>, l.content)
      [] l.kind = "ctx" -> Cat(<< <<" ",1>> >>, l.content)
      [] OTHER -> l.content

RECURSIVE JoinLines(_)
JoinLines(ls) ==
    IF Len(ls) = 0 THEN <<>>
    ELSE IF Len(ls) = 1 THEN RenderLine(ls[1])
    ELSE Concat(<< RenderLine(ls[1]), << <<"\n",1>> >>, JoinLines(Tail(ls)) >>)

Filler(n) == Fill("x", n)

\* lengths of the one-line diffs around max_diff_length: max_diff_length - MaxPad
\* .. max_diff_length + MaxPad
MaxPad == 1

PadDiff(k) == << DiffLine("ctx", Filler(max_diff_length - 1 + k)) >>

SmallDiffs ==
    { << DiffLine("raw", <<>>) >>,
      << DiffLine("ctx", <<>>), DiffLine("raw", <<>>) >>,
      << DiffLine("add", (* 'line1' *)
                         << <<"l",1>>, <<"i",2>>, <<"n",3>>, <<"e",4>>, <<"1",5>> >>), DiffLine("del", (* 'line2' *)
                                                     << <<"l",1>>, <<"i",2>>, <<"n",3>>, <<"e",4>>,
                                                        <<"2",5>> >>), DiffLine("raw", <<>>) >>,
      << DiffLine("git", (* 'a/f.py b/f.py' *)
                         << <<"a",1>>, <<"/",2>>, <<"f",3>>, <<".",4>>, <<"p",5>>, <<"y",6>>,
                            <<" ",7>>, <<"b",8>>, <<"/",9>>, <<"f",10>>, <<".",11>>, <<"p",12>>,
                            <<"y",13>> >>), DiffLine("old", (* 'a/f.py' *)
                                                             << <<"a",1>>, <<"/",2>>, <<"f",3>>,
                                                                <<".",4>>, <<"p",5>>, <<"y",6>> >>),
         DiffLine("new", (* 'b/f.py' *)
                         << <<"b",1>>, <<"/",2>>, <<"f",3>>, <<".",4>>, <<"p",5>>, <<"y",6>> >>), DiffLine("hunk", (* '-1,3 +1,3 @@' *)
                                                       << <<"-",1>>, <<"1",2>>, <<",",3>>,
                                                          <<"3",4>>, <<" ",5>>, <<"+",6>>,
                                                          <<"1",7>>, <<",",8>>, <<"3",9>>,
                                                          <<" ",10>>, <<"@",12>> >>),
         DiffLine("ctx", (* 'x = 1' *)
                         << <<"x",1>>, <<" ",2>>, <<"=",3>>, <<" ",4>>, <<"1",5>> >>), DiffLine("add", (* '++i' *)
                                                     << <<"+",2>>, <<"i",3>> >>), DiffLine("del", (* '--j' *)
                                                                               << <<"-",2>>, <<"j",3>> >>),
         DiffLine("add", (* 'y = 2' *)
                         << <<"y",1>>, <<" ",2>>, <<"=",3>>, <<" ",4>>, <<"2",5>> >>), DiffLine("git", (* 'a/g.py b/g.py' *)
                                                     << <<"a",1>>, <<"/",2>>, <<"g",3>>, <<".",4>>,
                                                        <<"p",5>>, <<"y",6>>, <<" ",7>>, <<"b",8>>,
                                                        <<"/",9>>, <<"g",10>>, <<".",11>>,
                                                        <<"p",12>>, <<"y",13>> >>),
         DiffLine("add", << <<"z",1>> >>), DiffLine("raw", <<>>) >>,
      << DiffLine("add", << <<"a",1>> >>), DiffLine("raw", <<>>),
         DiffLine("raw", (* '[... diff truncated for length ...]' *)
                         << <<"[",1>>, <<".",4>>, <<" ",5>>, <<"d",6>>, <<"i",7>>, <<"f",9>>,
                            <<" ",10>>, <<"t",11>>, <<"r",12>>, <<"u",13>>, <<"n",14>>, <<"c",15>>,
                            <<"a",16>>, <<"t",17>>, <<"e",18>>, <<"d",19>>, <<" ",20>>, <<"f",21>>,
                            <<"o",22>>, <<"r",23>>, <<" ",24>>, <<"l",25>>, <<"e",26>>, <<"n",27>>,
                            <<"g",28>>, <<"t",29>>, <<"h",30>>, <<" ",31>>, <<".",34>>, <<"]",35>> >>) >> }

LongDiffs ==
    { PadDiff(k) : k \in (0 - MaxPad)..MaxPad }
    \cup { << DiffLine("git", (* 'a/f.py b/f.py' *)
                              << <<"a",1>>, <<"/",2>>, <<"f",3>>, <<".",4>>, <<"p",5>>, <<"y",6>>,
                                 <<" ",7>>, <<"b",8>>, <<"/",9>>, <<"f",10>>, <<".",11>>,
                                 <<"p",12>>, <<"y",13>> >>), DiffLine("ctx", Filler(max_diff_length)),
              DiffLine("add", << <<"p",1>> >>), DiffLine("del", << <<"q",1>> >>), DiffLine("add", (* '++r' *)
                                                                              << <<"+",2>>, <<"r",3>> >>),
              DiffLine("git", (* 'a/g.py b/g.py' *)
                              << <<"a",1>>, <<"/",2>>, <<"g",3>>, <<".",4>>, <<"p",5>>, <<"y",6>>,
                                 <<" ",7>>, <<"b",8>>, <<"/",9>>, <<"g",10>>, <<".",11>>,
                                 <<"p",12>>, <<"y",13>> >>), DiffLine("del", << <<"s",1>> >>),
              DiffLine("raw", <<>>) >> }

DiffTable == { [lines |-> ls, text |-> JoinLines(ls)] : ls \in SmallDiffs \cup LongDiffs }

\* requests.get(...) raises, or returns a response with a status and a body
HttpOutcomes ==
    { [raises |-> TRUE, status_code |-> 0, text |-> <<>>] }
    \cup { [raises |-> FALSE, status_code |-> 200, text |-> d.text] : d \in DiffTable }
    \cup { [raises |-> FALSE, status_code |-> s, text |-> (* 'Not Found' *)
                                                          << <<"N",1>>, <<"o",2>>, <<"t",3>>,
                                                             <<" ",4>>, <<"F",5>>, <<"o",6>>,
                                                             <<"u",7>>, <<"n",8>>, <<"d",9>> >>] : s \in {404, 500} }

NoResponse == [raises |-> FALSE, status_code |-> 0, text |-> <<>>]

\* A review as the language model may answer it, and its JSON text
Comment(file, line, content) == [file |-> file, line |-> line, content |-> content]

RECURSIVE JsonComments(_)
JsonComments(cs) ==
    IF cs = <<>> THEN <<>>
    ELSE Concat(<< (* '{"file":"' *)
                   << <<"{",1>>, <<"\"",2>>, <<"f",3>>, <<"i",4>>, <<"l",5>>, <<"e",6>>,
                      <<"\"",7>>, <<":",8>>, <<"\"",9>> >>, Head(cs).file, (* '","line":' *)
                                                    << <<"\"",1>>, <<",",2>>, <<"\"",3>>,
                                                       <<"l",4>>, <<"i",5>>, <<"n",6>>, <<"e",7>>,
                                                       <<"\"",8>>, <<":",9>> >>, IntToStr(Head(cs).line),
                   (* ',"content":"' *)
                   << <<",",1>>, <<"\"",2>>, <<"c",3>>, <<"o",4>>, <<"n",5>>, <<"t",6>>, <<"e",7>>,
                      <<"n",8>>, <<"t",9>>, <<"\"",10>>, <<":",11>>, <<"\"",12>> >>, Head(cs).content, (* '"}' *)
                                                          << <<"\"",1>>, <<"}",2>> >>,
                   IF Len(cs) > 1 THEN << <<",",1>> >> ELSE <<>>, JsonComments(Tail(cs)) >>)

JsonText(r) ==
    Concat(<< (* '{"recommendation":"' *)
              << <<"{",1>>, <<"\"",2>>, <<"r",3>>, <<"e",4>>, <<"c",5>>, <<"o",6>>, <<"m",8>>,
                 <<"e",9>>, <<"n",10>>, <<"d",11>>, <<"a",12>>, <<"t",13>>, <<"i",14>>, <<"o",15>>,
                 <<"n",16>>, <<"\"",17>>, <<":",18>>, <<"\"",19>> >>, r.recommendation, (* '","summary":"' *)
                                                            << <<"\"",1>>, <<",",2>>, <<"\"",3>>,
                                                               <<"s",4>>, <<"u",5>>, <<"m",7>>,
                                                               <<"a",8>>, <<"r",9>>, <<"y",10>>,
                                                               <<"\"",11>>, <<":",12>>, <<"\"",13>> >>, r.summary,
              (* '","general_feedback":"' *)
              << <<"\"",1>>, <<",",2>>, <<"\"",3>>, <<"g",4>>, <<"e",5>>, <<"n",6>>, <<"e",7>>,
                 <<"r",8>>, <<"a",9>>, <<"l",10>>, <<"_",11>>, <<"f",12>>, <<"e",14>>, <<"d",15>>,
                 <<"b",16>>, <<"a",17>>, <<"c",18>>, <<"k",19>>, <<"\"",20>>, <<":",21>>,
                 <<"\"",22>> >>, r.general_feedback, (* '","comments":[' *)
                                                                  << <<"\"",1>>, <<",",2>>, <<"\"",3>>,
                                                                     <<"c",4>>, <<"o",5>>, <<"m",7>>,
                                                                     <<"e",8>>, <<"n",9>>, <<"t",10>>,
                                                                     <<"s",11>>, <<"\"",12>>, <<":",13>>,
                                                                     <<"[",14>> >>,
              JsonComments(r.comments), (* ']}' *)
                                        << <<"]",1>>, <<"}",2>> >> >>)

Fenced(t) == Concat(<< (* '```json\n' *)
                       << <<"U+0060",3>>, <<"j",4>>, <<"s",5>>, <<"o",6>>, <<"n",7>>, <<"\n",8>> >>, t, (* '\n```' *)
                                         << <<"\n",1>>, <<"U+0060",4>> >> >>)

Approve ==
    [recommendation |-> (* 'approve' *)
                        << <<"a",1>>, <<"p",3>>, <<"r",4>>, <<"o",5>>, <<"v",6>>, <<"e",7>> >>, summary |-> (* 'Looks good' *)
                                                 << <<"L",1>>, <<"o",3>>, <<"k",4>>, <<"s",5>>,
                                                    <<" ",6>>, <<"g",7>>, <<"o",9>>, <<"d",10>> >>,
     general_feedback |-> <<>>, comments |-> <<>>]

RequestChanges ==
    [recommendation |-> (* 'request changes' *)
                        << <<"r",1>>, <<"e",2>>, <<"q",3>>, <<"u",4>>, <<"e",5>>, <<"s",6>>,
                           <<"t",7>>, <<" ",8>>, <<"c",9>>, <<"h",10>>, <<"a",11>>, <<"n",12>>,
                           <<"g",13>>, <<"e",14>>, <<"s",15>> >>, summary |-> (* 'Needs work' *)
                                                         << <<"N",1>>, <<"e",3>>, <<"d",4>>,
                                                            <<"s",5>>, <<" ",6>>, <<"w",7>>,
                                                            <<"o",8>>, <<"r",9>>, <<"k",10>> >>,
     general_feedback |-> (* 'See the notes' *)
                          << <<"S",1>>, <<"e",3>>, <<" ",4>>, <<"t",5>>, <<"h",6>>, <<"e",7>>,
                             <<" ",8>>, <<"n",9>>, <<"o",10>>, <<"t",11>>, <<"e",12>>, <<"s",13>> >>,
     comments |-> << Comment((* 'a.py' *)
                             << <<"a",1>>, <<".",2>>, <<"p",3>>, <<"y",4>> >>, 3, (* 'rename this' *)
                                          << <<"r",1>>, <<"e",2>>, <<"n",3>>, <<"a",4>>, <<"m",5>>,
                                             <<"e",6>>, <<" ",7>>, <<"t",8>>, <<"h",9>>,
                                             <<"i",10>>, <<"s",11>> >>), Comment((* 'b.py' *)
                                                                    << <<"b",1>>, <<".",2>>, <<"p",3>>,
                                                                       <<"y",4>> >>, 10, (* 'off by one' *)
                                                                                  << <<"o",1>>, <<"f",3>>, <<" ",4>>,
                                                                                     <<"b",5>>, <<"y",6>>, <<" ",7>>,
                                                                                     <<"o",8>>, <<"n",9>>, <<"e",10>> >>) >>]

WellFormedReviews ==
    { [text |-> Fenced(JsonText(Approve)), review |-> Approve],
      [text |-> JsonText(Approve), review |-> Approve],
      [text |-> JsonText(RequestChanges), review |-> RequestChanges] }

\* JSON cut short of its closing brackets, bare and inside an unclosed fence
MalformedTexts ==
    { Take(JsonText(RequestChanges), Size(JsonText(RequestChanges)) - 2),
      Cat((* '```json\n' *)
          << <<"U+0060",3>>, <<"j",4>>, <<"s",5>>, <<"o",6>>, <<"n",7>>, <<"\n",8>> >>, Take(JsonText(Approve), Size(JsonText(Approve)) - 1)) }

PlainTexts == { (* '### Code Quality\nLooks fine.\n' *)
                << <<"#",3>>, <<" ",4>>, <<"C",5>>, <<"o",6>>, <<"d",7>>, <<"e",8>>, <<" ",9>>,
                   <<"Q",10>>, <<"u",11>>, <<"a",12>>, <<"l",13>>, <<"i",14>>, <<"t",15>>,
                   <<"y",16>>, <<"\n",17>>, <<"L",18>>, <<"o",20>>, <<"k",21>>, <<"s",22>>,
                   <<" ",23>>, <<"f",24>>, <<"i",25>>, <<"n",26>>, <<"e",27>>, <<".",28>>,
                   <<"\n",29>> >> }

\* a completion of 65,000 characters
HugeText == Fill("x", 65000)

CompletionTexts ==
    { e.text : e \in WellFormedReviews } \cup MalformedTexts \cup PlainTexts \cup {HugeText}

\* llm.completion(...) raises, or returns a response whose choices is empty or
\* holds one message whose content is None, '' or a text
LlmOutcomes ==
    { [raises |-> e, choices |-> <<>>] : e \in {"Timeout", "AuthenticationError"} }
    \cup { [raises |-> "none", choices |-> <<>>] }
    \cup { [raises |-> "none", choices |-> << [content |-> c] >>] :
             c \in {None, Str(<<>>)} \cup { Str(t) : t \in CompletionTexts } }

NoLlmResponse == [raises |-> "none", choices |-> <<>>]

-----------------------------------------------------------------------------
(* PRReviewer.review(), one action per stage *)

Fallback == (* '*Unable to generate automated review. Please review manually.*' *)
            << <<"*",1>>, <<"U",2>>, <<"n",3>>, <<"a",4>>, <<"b",5>>, <<"l",6>>, <<"e",7>>,
               <<" ",8>>, <<"t",9>>, <<"o",10>>, <<" ",11>>, <<"g",12>>, <<"e",13>>, <<"n",14>>,
               <<"e",15>>, <<"r",16>>, <<"a",17>>, <<"t",18>>, <<"e",19>>, <<" ",20>>, <<"a",21>>,
               <<"u",22>>, <<"t",23>>, <<"o",24>>, <<"m",25>>, <<"a",26>>, <<"t",27>>, <<"e",28>>,
               <<"d",29>>, <<" ",30>>, <<"r",31>>, <<"e",32>>, <<"v",33>>, <<"i",34>>, <<"e",35>>,
               <<"w",36>>, <<".",37>>, <<" ",38>>, <<"P",39>>, <<"l",40>>, <<"e",41>>, <<"a",42>>,
               <<"s",43>>, <<"e",44>>, <<" ",45>>, <<"r",46>>, <<"e",47>>, <<"v",48>>, <<"i",49>>,
               <<"e",50>>, <<"w",51>>, <<" ",52>>, <<"m",53>>, <<"a",54>>, <<"n",55>>, <<"u",56>>,
               <<"a",57>>, <<"l",59>>, <<"y",60>>, <<".",61>>, <<"*",62>> >>

SystemMessage == (* 'You are an expert code reviewer. Provide constructive, specific feedback on code changes.' *)
                 << <<"Y",1>>, <<"o",2>>, <<"u",3>>, <<" ",4>>, <<"a",5>>, <<"r",6>>, <<"e",7>>,
                    <<" ",8>>, <<"a",9>>, <<"n",10>>, <<" ",11>>, <<"e",12>>, <<"x",13>>,
                    <<"p",14>>, <<"e",15>>, <<"r",16>>, <<"t",17>>, <<" ",18>>, <<"c",19>>,
                    <<"o",20>>, <<"d",21>>, <<"e",22>>, <<" ",23>>, <<"r",24>>, <<"e",25>>,
                    <<"v",26>>, <<"i",27>>, <<"e",28>>, <<"w",29>>, <<"e",30>>, <<"r",31>>,
                    <<".",32>>, <<" ",33>>, <<"P",34>>, <<"r",35>>, <<"o",36>>, <<"v",37>>,
                    <<"i",38>>, <<"d",39>>, <<"e",40>>, <<" ",41>>, <<"c",42>>, <<"o",43>>,
                    <<"n",44>>, <<"s",45>>, <<"t",46>>, <<"r",47>>, <<"u",48>>, <<"c",49>>,
                    <<"t",50>>, <<"i",51>>, <<"v",52>>, <<"e",53>>, <<",",54>>, <<" ",55>>,
                    <<"s",56>>, <<"p",57>>, <<"e",58>>, <<"c",59>>, <<"i",60>>, <<"f",61>>,
                    <<"i",62>>, <<"c",63>>, <<" ",64>>, <<"f",65>>, <<"e",67>>, <<"d",68>>,
                    <<"b",69>>, <<"a",70>>, <<"c",71>>, <<"k",72>>, <<" ",73>>, <<"o",74>>,
                    <<"n",75>>, <<" ",76>>, <<"c",77>>, <<"o",78>>, <<"d",79>>, <<"e",80>>,
                    <<" ",81>>, <<"c",82>>, <<"h",83>>, <<"a",84>>, <<"n",85>>, <<"g",86>>,
                    <<"e",87>>, <<"s",88>>, <<".",89>> >>

Init ==
    /\ pc = "start"
    /\ error = "none"
    /\ issue = NoIssue
    /\ response = NoResponse
    /\ pr_diff = <<>>
    /\ prompt = <<>>
    /\ llm_requests = <<>>
    /\ llm_response = NoLlmResponse
    /\ review_content = None
    /\ review_summary = <<>>
    /\ sent = <<>>

\* issue = self.extract_issue(): returns the Issue or raises
extract_issue ==
    /\ pc = "start"
    /\ \/ /\ pc' = "raised"
          /\ error' = "ChangeRequestNotFound"
          /\ UNCHANGED issue
       \/ \E i \in Issues :
            /\ issue' = i
            /\ pc' = "extracted"
            /\ UNCHANGED error
    /\ UNCHANGED <<response, pr_diff, prompt, llm_requests, llm_response,
                   review_content, review_summary, sent>>

\* fetch_pr_diff without response.raise_for_status()
fetch_pr_diff_unchecked_status ==
    /\ pc = "extracted"
    /\ \E r \in HttpOutcomes :
         /\ response' = r
         /\ IF r.raises
            THEN /\ pc' = "raised"
                 /\ error' = "RequestException"
                 /\ UNCHANGED pr_diff
            ELSE /\ pr_diff' = r.text
                 /\ pc' = "fetched"
                 /\ UNCHANGED error
    /\ UNCHANGED <<issue, prompt, llm_requests, llm_response, review_content,
                   review_summary, sent>>

\* pr_diff = self._fetch_pr_diff()
fetch_pr_diff ==
    /\ pc = "extracted"
    /\ \E r \in HttpOutcomes :
         /\ response' = r
         /\ IF r.raises
            THEN /\ pc' = "raised"
                 /\ error' = "RequestException"
                 /\ UNCHANGED pr_diff
            ELSE IF r.status_code >= 400 /\ r.status_code < 600
            THEN /\ pc' = "raised"
                 /\ error' = "HTTPError"
                 /\ UNCHANGED pr_diff
            ELSE /\ pr_diff' = r.text
                 /\ pc' = "fetched"
                 /\ UNCHANGED error
    /\ UNCHANGED <<issue, prompt, llm_requests, llm_response, review_content,
                   review_summary, sent>>

\* _generate_code_review: prompt = self._build_review_prompt(issue, pr_diff)
BuildPrompt ==
    /\ pc = "fetched"
    /\ prompt' = build_review_prompt(issue, pr_diff)
    /\ pc' = "prompt_built"
    /\ UNCHANGED <<error, issue, response, pr_diff, llm_requests, llm_response,
                   review_content, review_summary, sent>>

\* _generate_code_review: the try block around llm.completion and
\* response.choices[0].message.content, and its except clause
LlmCompletion ==
    /\ pc = "prompt_built"
    /\ \E r \in LlmOutcomes :
         /\ llm_requests' = Append(llm_requests,
                << [role |-> "system", content |-> SystemMessage],
                   [role |-> "user", content |-> prompt] >>)
         /\ llm_response' = r
         /\ review_content' =
                IF r.raises # "none" \/ Len(r.choices) = 0
                THEN Str(Fallback)
                ELSE r.choices[1].content
    /\ pc' = "llm_done"
    /\ UNCHANGED <<error, issue, response, pr_diff, prompt, review_summary, sent>>

\* _generate_code_review: return self._format_review_output(issue, review_content, pr_diff)
FormatReview ==
    /\ pc = "llm_done"
    /\ IF JoinRaises(output_parts(issue, review_content, pr_diff))
       THEN /\ pc' = "raised"
            /\ error' = "TypeError"
            /\ UNCHANGED review_summary
       ELSE /\ review_summary' = format_review_output(issue, review_content, pr_diff)
            /\ pc' = "formatted"
            /\ UNCHANGED error
    /\ UNCHANGED <<issue, response, pr_diff, prompt, llm_requests, llm_response,
                   review_content, sent>>

\* post_review_comment that sends the comment a second time
post_review_comment_twice ==
    /\ pc = "formatted"
    /\ sent' = sent \o << [number |-> issue.number, msg |-> review_summary],
                          [number |-> issue.number, msg |-> review_summary] >>
    /\ \/ /\ pc' = "done"
          /\ UNCHANGED error
       \/ /\ pc' = "raised"
          /\ error' = "CommentPostFailure"
    /\ UNCHANGED <<issue, response, pr_diff, prompt, llm_requests, llm_response,
                   review_content, review_summary>>

\* self._post_review_comment(review_summary): one send_comment_msg call, which
\* returns or raises
post_review_comment ==
    /\ pc = "formatted"
    /\ sent' = Append(sent, [number |-> issue.number, msg |-> review_summary])
    /\ \/ /\ pc' = "done"
          /\ UNCHANGED error
       \/ /\ pc' = "raised"
          /\ error' = "CommentPostFailure"
    /\ UNCHANGED <<issue, response, pr_diff, prompt, llm_requests, llm_response,
                   review_content, review_summary>>

Next ==
    \/ extract_issue
    \/ fetch_pr_diff
    \/ BuildPrompt
    \/ LlmCompletion
    \/ FormatReview
    \/ post_review_comment

Spec == Init /\ [][Next]_vars

-----------------------------------------------------------------------------
(* Vocabulary of the properties *)

Rank(p) ==
    CASE p = "start" -> 0
      [] p = "extracted" -> 1
      [] p = "fetched" -> 2
      [] p = "prompt_built" -> 3
      [] p = "llm_done" -> 4
      [] p = "formatted" -> 5
      [] p = "done" -> 6
      [] OTHER -> 7

\* requests.get returned and raise_for_status let the response through
DiffAcquired == response # NoResponse /\ ~response.raises /\ response.status_code < 400

LlmCalled == llm_requests # <<>>

\* the completion call raised or returned no usable choice
LlmRaised == LlmCalled /\ (llm_response.raises # "none" \/ Len(llm_response.choices) = 0)

\* a transport or provider failure: an exception, no choice, or a choice whose
\* content is missing or empty
LlmFailed ==
    \/ LlmRaised
    \/ /\ LlmCalled
       /\ llm_response.raises = "none"
       /\ Len(llm_response.choices) > 0
       /\ ~Truthy(llm_response.choices[1].content)

\* the completion returned a text
LlmReturnedText ==
    /\ LlmCalled
    /\ llm_response.raises = "none"
    /\ Len(llm_response.choices) > 0
    /\ ~llm_response.choices[1].content.none

RawText == llm_response.choices[1].content.val

\* s.endswith(p)
EndsWith(s, p) == Size(p) <= Size(s) /\ Slice(s, Size(s) - Size(p) + 1, Size(s)) = p

\* text[k - 1 : k - 1 + len(needle)] == needle
OccursAt(text, needle, k) ==
    /\ k >= 1
    /\ k + Size(needle) - 1 <= Size(text)
    /\ Slice(text, k, k + Size(needle) - 1) = needle

\* needle in text.  An occurrence of a needle of several runs has the first
\* run of the needle end where a run of the text ends.
Contains(text, needle) ==
    \/ needle = <<>>
    \/ \E j \in 1..Len(text) :
          /\ text[j][1] = needle[1][1]
          /\ text[j][2] - RunStart(text, j) + 1 >= needle[1][2]
          /\ Len(needle) > 1 => OccursAt(text, needle, text[j][2] - needle[1][2] + 1)

DiffSection(p, iss) == Slice(p, Size(PromptHead(iss)) + 1, Size(p) - Size(PromptTail))

-----------------------------------------------------------------------------
(* C1 *)

StageInvariant ==
    /\ Len(llm_requests) <= 1
    /\ Len(sent) <= 1
    /\ (prompt # <<>> => DiffAcquired /\ prompt = build_review_prompt(issue, pr_diff))
    /\ (LlmCalled => prompt # <<>> /\ llm_requests[1][2].content = prompt)
    /\ (review_summary # <<>> => LlmCalled /\ Rank(pc) >= 5)
    /\ (sent # <<>> => review_summary # <<>> /\ sent[1].msg = review_summary /\ Rank(pc) >= 6)
    /\ (pc = "done" => Len(llm_requests) = 1 /\ Len(sent) = 1 /\ error = "none")

StageStep ==
    /\ Rank(pc') > Rank(pc)
    /\ (pc' # "raised" => Rank(pc') = Rank(pc) + 1)
    /\ Len(llm_requests') >= Len(llm_requests)
    /\ Len(sent') >= Len(sent)

\* C1: a run of review() goes through acquire diff, build prompt, invoke LLM,
\* format, post in that order, each stage at most once: at most one completion
\* request and at most one send_comment_msg call are made, the comment is sent
\* only after the LLM stage and the formatting have finished, and a run that
\* reaches the end without a failure has made exactly one request and sent
\* exactly one comment.
C1_LinearPipeline == [](StageInvariant) /\ [][StageStep]_vars

C1_Witness == pc = "done" /\ error = "none" /\ Len(llm_requests) = 1 /\ Len(sent) = 1

-----------------------------------------------------------------------------
(* C2 *)

\* C2: whenever the LLM stage fails (the call raises, or the response has no
\* choice, or the choice has a missing or empty content), nothing is raised to
\* the caller of _generate_code_review, the review text is the fixed fallback
\* string, and a finished run has sent one comment that contains the fallback.
C2_LlmFailureFallsBack ==
    LlmFailed =>
        /\ error # "TypeError"
        /\ review_content = Str(Fallback)
        /\ (pc = "done" => Len(sent) = 1 /\ Contains(sent[1].msg, Fallback))

-----------------------------------------------------------------------------
(* C3 *)

\* extract_issue raised, requests.get raised, or the diff request came back
\* with an error status
FailedBeforeFormatting ==
    \/ error = "ChangeRequestNotFound"
    \/ response.raises
    \/ response.status_code >= 400

\* C3: once extract_issue has failed, or the diff request has failed or has
\* returned an error status, the run has ended: no prompt is built, the LLM is
\* never called and send_comment_msg is never called.
C3_EarlyFailureIsTerminal ==
    FailedBeforeFormatting =>
        /\ pc = "raised"
        /\ prompt = <<>>
        /\ llm_requests = <<>>
        /\ sent = <<>>

C3_Witness == pc = "raised" /\ error = "HTTPError" /\ response.status_code = 404

-----------------------------------------------------------------------------
(* C4 *)

\* C4: when the acquired diff is empty or whitespace-only, no completion
\* request is made and send_comment_msg is never called.
C4_EmptyDiffShortCircuits ==
    (DiffAcquired /\ Strip(pr_diff) = <<>>) => (llm_requests = <<>> /\ sent = <<>>)

-----------------------------------------------------------------------------
(* C5 *)

\* C5: in the prompt that is built, the diff section is the diff itself when
\* the diff is shorter than max_diff_length, and is the first max_diff_length
\* characters of the diff followed by the truncation marker, of length
\* max_diff_length plus the length of the marker, when the diff is longer.
C5_PromptDiffSection ==
    prompt # <<>> =>
        LET section == DiffSection(prompt, issue)
        IN /\ StartsWith(prompt, PromptHead(issue))
           /\ EndsWith(prompt, PromptTail)
           /\ (Size(pr_diff) < 10000 => section = pr_diff)
           /\ (Size(pr_diff) > 10000 =>
                 /\ section = Cat(Slice(pr_diff, 1, 10000), TruncationMarker)
                 /\ Size(section) = 10000 + Size(TruncationMarker))

C5_Witness ==
    /\ pc = "prompt_built"
    /\ Size(pr_diff) > max_diff_length
    /\ EndsWith(DiffSection(prompt, issue), TruncationMarker)

-----------------------------------------------------------------------------
(* C6 *)

\* the completion returned a text that is not one of the well-formed reviews
MalformedReturned == LlmReturnedText /\ RawText \notin { e.text : e \in WellFormedReviews }

\* C6: when the completion text is not a well-formed structured review, the
\* pipeline's own code raises nothing (only send_comment_msg may fail), the
\* formatted comment and every comment sent contain the raw text unchanged as
\* one contiguous piece, and a finished run has sent one comment.
C6_RawTextPreserved ==
    MalformedReturned =>
        /\ error \in {"none", "CommentPostFailure"}
        /\ (Rank(pc) >= 5 => Contains(review_summary, RawText))
        /\ \A i \in 1..Len(sent) : Contains(sent[i].msg, RawText)
        /\ (pc = "done" => Len(sent) = 1)

C6_Witness ==
    /\ pc = "done"
    /\ MalformedReturned
    /\ RawText \in MalformedTexts
    /\ Len(sent) = 1

-----------------------------------------------------------------------------
(* C7 *)

Bullet(c) == Concat(<< c.file, (* ' (Line ' *)
                               << <<" ",1>>, <<"(",2>>, <<"L",3>>, <<"i",4>>, <<"n",5>>, <<"e",6>>,
                                  <<" ",7>> >>, IntToStr(c.line), (* '): ' *)
                                                              << <<")",1>>, <<":",2>>, <<" ",3>> >>, c.content >>)

BulletsInOrder(text, cs) ==
    /\ \A i \in 1..Len(cs) : Contains(text, Bullet(cs[i]))
    /\ \A i \in 1..Len(cs) : \A j \in 1..Len(cs) :
          i < j => \E p \in 1..Size(text) : \E q \in 1..Size(text) :
                      p < q /\ OccursAt(text, Bullet(cs[i]), p) /\ OccursAt(text, Bullet(cs[j]), q)

\* C7: when the completion is a well-formed JSON review, bare or in a json
\* fence, every comment sent has a "Recommendation: <recommendation>" line and
\* the summary, and has a "Specific Feedback" section exactly when the review
\* has comments, which it lists in their original order.
C7_StructuredRendering ==
    \A e \in WellFormedReviews :
        (LlmReturnedText /\ RawText = e.text) =>
            \A i \in 1..Len(sent) :
                /\ Contains(sent[i].msg, Cat((* 'Recommendation: ' *)
                                             << <<"R",1>>, <<"e",2>>, <<"c",3>>, <<"o",4>>,
                                                <<"m",6>>, <<"e",7>>, <<"n",8>>, <<"d",9>>,
                                                <<"a",10>>, <<"t",11>>, <<"i",12>>, <<"o",13>>,
                                                <<"n",14>>, <<":",15>>, <<" ",16>> >>, e.review.recommendation))
                /\ Contains(sent[i].msg, e.review.summary)
                /\ (Contains(sent[i].msg, (* 'Specific Feedback' *)
                                          << <<"S",1>>, <<"p",2>>, <<"e",3>>, <<"c",4>>, <<"i",5>>,
                                             <<"f",6>>, <<"i",7>>, <<"c",8>>, <<" ",9>>,
                                             <<"F",10>>, <<"e",12>>, <<"d",13>>, <<"b",14>>,
                                             <<"a",15>>, <<"c",16>>, <<"k",17>> >>) <=> e.review.comments # <<>>)
                /\ BulletsInOrder(sent[i].msg, e.review.comments)

-----------------------------------------------------------------------------
(* C8 *)

\* C8: every comment text passed to send_comment_msg is at most 65,000
\* characters long.
C8_CommentSizeCapped == \A i \in 1..Len(sent) : Size(sent[i].msg) <= 65000

-----------------------------------------------------------------------------
(* C9 *)

\* C9: for the same issue no diff of length at most max_diff_length and diff
\* of greater length give the same prompt, and the diff section of the prompt
\* ends with the truncation marker only when the diff was truncated.
C9_MarkerDistinguishable ==
    pc = "prompt_built" =>
        /\ \A d1 \in DiffTable : \A d2 \in DiffTable :
              (Size(d1.text) <= max_diff_length /\ Size(d2.text) > max_diff_length) =>
                  build_review_prompt(issue, d1.text) # build_review_prompt(issue, d2.text)
        /\ (EndsWith(DiffSection(prompt, issue), TruncationMarker) =>
                Size(pr_diff) > max_diff_length)

-----------------------------------------------------------------------------
(* C10 *)

\* the counts read off the lines of the diff as it was written down
LineCounts(ls) ==
    [files |-> Cardinality({k \in 1..Len(ls) : ls[k].kind = "git"}),
     additions |-> Cardinality({k \in 1..Len(ls) :
                      ls[k].kind = "add" /\ ~StartsWith(ls[k].content, (* '++' *)
                                                                       << <<"+",2>> >>)}),
     deletions |-> Cardinality({k \in 1..Len(ls) :
                      ls[k].kind = "del" /\ ~StartsWith(ls[k].content, (* '--' *)
                                                                       << <<"-",2>> >>)})]

ChangesLine(c) ==
    Concat(<< (* '**Changes:** ' *)
              << <<"*",2>>, <<"C",3>>, <<"h",4>>, <<"a",5>>, <<"n",6>>, <<"g",7>>, <<"e",8>>,
                 <<"s",9>>, <<":",10>>, <<"*",12>>, <<" ",13>> >>, IntToStr(c.files), (* ' file(s) changed, +' *)
                                                    << <<" ",1>>, <<"f",2>>, <<"i",3>>, <<"l",4>>,
                                                       <<"e",5>>, <<"(",6>>, <<"s",7>>, <<")",8>>,
                                                       <<" ",9>>, <<"c",10>>, <<"h",11>>,
                                                       <<"a",12>>, <<"n",13>>, <<"g",14>>,
                                                       <<"e",15>>, <<"d",16>>, <<",",17>>,
                                                       <<" ",18>>, <<"+",19>> >>,
              IntToStr(c.additions), (* ' additions, -' *)
                                     << <<" ",1>>, <<"a",2>>, <<"d",4>>, <<"i",5>>, <<"t",6>>,
                                        <<"i",7>>, <<"o",8>>, <<"n",9>>, <<"s",10>>, <<",",11>>,
                                        <<" ",12>>, <<"-",13>> >>, IntToStr(c.deletions),
              (* ' deletions\n\n' *)
              << <<" ",1>>, <<"d",2>>, <<"e",3>>, <<"l",4>>, <<"e",5>>, <<"t",6>>, <<"i",7>>,
                 <<"o",8>>, <<"n",9>>, <<"s",10>>, <<"\n",12>> >> >>)

\* C10: the Changes line of every comment sent is computed from the whole
\* acquired diff: files changed is the number of "diff --git" lines, additions
\* the number of added lines whose content does not begin with "++", deletions
\* the number of removed lines whose content does not begin with "--".
C10_ChangesFromFullDiff ==
    \A i \in 1..Len(sent) : \A e \in DiffTable :
        e.text = pr_diff => Contains(sent[i].msg, ChangesLine(LineCounts(e.lines)))

C10_Witness ==
    /\ pc = "done"
    /\ Size(pr_diff) > max_diff_length
    /\ additions(pr_diff) # additions(Take(pr_diff, max_diff_length))
    /\ \E e \in DiffTable :
          /\ e.text = pr_diff
          /\ \E k \in 1..Len(e.lines) :
                e.lines[k].kind = "add" /\ StartsWith(e.lines[k].content, (* '++' *)
                                                                          << <<"+",2>> >>)
====
